---- MODULE Spec2Model ----
(***************************************************************************)
(* Daily usage-submission gate of the diary application                    *)
(* (src/src/services/usageScheduler.ts) together with the parts of the     *)
(* native wrapper and of the Supabase layer it calls                       *)
(* (src/src/services/usageNative.ts).                                      *)
(*                                                                         *)
(* Strings whose formatting or parsing matters (ISO dates, HH:mm times)    *)
(* are sequences of one-character strings; a key of the key-value store    *)
(* that is absent reads as the empty sequence (the code never stores an    *)
(* empty string and treats null and "" alike).                             *)
(***************************************************************************)
EXTENDS Integers, Sequences, FiniteSets, Bags, TLC

\* ------------------------------------------------------------------ bounds
\* invocations of runIfDueNow and runOnceNow in a behaviour
MaxRuns == 2

\* Stored target strings have at most MaxLen characters.
MaxLen == 6

\* Durations handed to msToMinutes range over -MaxMs..MaxMs milliseconds.
MaxMs == 150000

\* --------------------------------------------------------------- constants
DEFAULT_DAILY_TIME_HHMM == <<"2", "1", ":", "0", "0">>
Q_TEXT_TOTAL == "Wie lange warst du heute am Handy? (Automatisch)"
Q_TEXT_SOCIAL == "Zeit auf Social Media heute (Automatisch)"
Q_TEXT_MUSIC == "Zeit Musik/Audio heute (Automatisch)"
Q_TEXT_LAST_APP == "Letzte App vor dem Schlafen (Automatisch)"
UNKNOWN_APP == "Unbekannt"

Slots == <<"totalMinutes", "socialMinutes", "musicMinutes", "lastApp">>
SlotSet == {Slots[i] : i \in 1..4}
QTexts == <<Q_TEXT_TOTAL, Q_TEXT_SOCIAL, Q_TEXT_MUSIC, Q_TEXT_LAST_APP>>
QTextSet == {QTexts[i] : i \in 1..4}

\* Invocation slots: the app in the foreground (the check at start-up, the
\* manual run of the settings screen) and the background-fetch task.
AppSlot == 1
TaskSlot == 2
Procs == {AppSlot, TaskSlot}
NoItem == <<>>

\* No exported function has been called directly yet.
NoCall ==
  [op |-> "none", arg |-> <<>>, threw |-> FALSE, result |-> <<>>,
   before |-> <<>>, accepted |-> <<>>]

\* ------------------------------------------------------- string helpers
DigitChars == <<"0", "1", "2", "3", "4", "5", "6", "7", "8", "9">>
IsDigit(c) == \E i \in 1..10 : DigitChars[i] = c
DigitVal(c) == (CHOOSE i \in 1..10 : DigitChars[i] = c) - 1

RECURSIVE NumToStr(_)
NumToStr(n) ==
  IF n < 10 THEN <<DigitChars[n + 1]>>
  ELSE NumToStr(n \div 10) \o <<DigitChars[(n % 10) + 1]>>

padStart2(s) == IF Len(s) < 2 THEN <<"0">> \o s ELSE s

RECURSIVE StrToNum(_)
StrToNum(s) ==
  IF s = <<>> THEN 0
  ELSE StrToNum(SubSeq(s, 1, Len(s) - 1)) * 10 + DigitVal(s[Len(s)])

\* String.prototype.split on a one-character separator
RECURSIVE Split(_, _)
Split(s, sep) ==
  IF \A i \in 1..Len(s) : s[i] # sep THEN <<s>>
  ELSE LET i == CHOOSE j \in 1..Len(s) :
                  s[j] = sep /\ \A k \in 1..(j - 1) : s[k] # sep
       IN <<SubSeq(s, 1, i - 1)>> \o Split(SubSeq(s, i + 1, Len(s)), sep)

\* /^\d{2}:\d{2}$/.test(s)
MatchesHHmm(s) ==
  /\ Len(s) = 5
  /\ IsDigit(s[1]) /\ IsDigit(s[2])
  /\ s[3] = ":"
  /\ IsDigit(s[4]) /\ IsDigit(s[5])

\* ---------------------------------------------------------- date helpers
toISODate(d) ==
  NumToStr(d.fullYear) \o <<"-">> \o padStart2(NumToStr(d.month + 1))
    \o <<"-">> \o padStart2(NumToStr(d.date))

\* Seeded fault: hours and minutes are not padded to two digits.
toHHmmUnpadded(d) == NumToStr(d.hours) \o <<":">> \o NumToStr(d.minutes)

toHHmm(d) ==
  padStart2(NumToStr(d.hours)) \o <<":">> \o padStart2(NumToStr(d.minutes))

toMinutesSinceMidnight(d) == d.hours * 60 + d.minutes

hhmmToMinutes(hhmm) ==
  LET parts == Split(hhmm, ":")
  IN StrToNum(parts[1]) * 60 + StrToNum(parts[2])

\* Math.round(n / d) for d > 0: halves round towards +infinity
MathRound(n, d) == (2 * n + d) \div (2 * d)

MaxOf(a, b) == IF a >= b THEN a ELSE b

\* Seeded fault: the minutes are truncated instead of rounded.
msToMinutesTruncating(ms) == MaxOf(0, ms \div 60000)

msToMinutes(ms) == MaxOf(0, MathRound(ms, 60000))


lastAppLabel(summary) ==
  IF ~summary.hasLastApp THEN UNKNOWN_APP
  ELSE IF summary.lastApp.hasLabel /\ summary.lastApp.label # ""
    THEN summary.lastApp.label
  ELSE IF summary.lastApp.packageName # "" THEN summary.lastApp.packageName
  ELSE UNKNOWN_APP

\* ------------------------------------------------------ inputs (bounded)
\* Local wall-clock times at which something happens: (hours, minutes)
ClockTimes == {<<20, 59>>, <<21, 0>>}

\* The local calendar days of a behaviour, in order (months count from 0):
\* 2025-01-31 and the day after it, 2025-02-01
Days ==
  << [fullYear |-> 2025, month |-> 0, date |-> 31],
     [fullYear |-> 2025, month |-> 1, date |-> 1] >>
LastDay == Len(Days)

\* new Date() on the n-th day at the wall-clock time hm
CalendarDate(n, hm) ==
  [fullYear |-> Days[n].fullYear, month |-> Days[n].month,
   date |-> Days[n].date, hours |-> hm[1], minutes |-> hm[2]]

NoDate == [fullYear |-> 0, month |-> 0, date |-> 0, hours |-> 0, minutes |-> 0]

\* Strings a caller may pass to setDailyTargetTime
TargetInputs ==
  { <<"2", "0", ":", "5", "9">>,
    <<"9", ":", "0", "0">> }

\* Strings a caller of the exported setDailyTargetTime may pass (the time
\* picker of the settings screen passes the times of a day only)
TimeInputs ==
  TargetInputs \cup
  { <<"2", "1", ":", "0", "0">>,
    <<"0", "0", ":", "0", "0">>,
    <<"9", "9", ":", "9", "9">>,
    <<"2", "1", ":", "0">>,
    <<"2", "1", "0", "0">>,
    <<"2", "1", ":", "0", "0", "0">>,
    <<"0", "2", "1", ":", "0", "0">>,
    <<"2", "1", "-", "0", "0">>,
    <<"a", "b", ":", "c", "d">>,
    <<>> }

\* Summaries the native module may resolve with
NoApp == [packageName |-> "", hasLabel |-> FALSE, label |-> ""]
ZeroSummary ==
  [totalScreenTimeMs |-> 0, socialMs |-> 0, musicMs |-> 0,
   hasLastApp |-> FALSE, lastApp |-> NoApp]
SummaryInputs ==
  { [totalScreenTimeMs |-> 7260000, socialMs |-> 1800000, musicMs |-> 0,
     hasLastApp |-> TRUE,
     lastApp |-> [packageName |-> "com.example", hasLabel |-> TRUE,
                  label |-> "Example"]],
    [totalScreenTimeMs |-> 90000, socialMs |-> 59999, musicMs |-> 29999,
     hasLastApp |-> TRUE,
     lastApp |-> [packageName |-> "com.example", hasLabel |-> FALSE,
                  label |-> ""]],
    [totalScreenTimeMs |-> 30000, socialMs |-> 0, musicMs |-> 30000,
     hasLastApp |-> TRUE,
     lastApp |-> [packageName |-> "org.player", hasLabel |-> TRUE,
                  label |-> ""]] }

\* --------------------------------------------------------------- state
VARIABLES
  platform,      \* Platform.OS
  configured,    \* isSupabaseConfigured()
  nativeLinked,  \* the native module exports both methods
  permission,    \* usage access is granted (AppOps MODE_ALLOWED)
  usage,         \* what the OS usage counters amount to for today
  clock,         \* [n, hm]: n-th calendar day, local (hours, minutes)
  kv,            \* AsyncStorage: [last, target, qids]
  questions,     \* table "questions": set of rows
  nextQid,       \* next serial id of table "questions"
  entries,       \* table "diary_entries": bag of rows (ids left out)
  runs,          \* one record per invocation slot
  started,       \* invocations begun so far
  settingsOpened,\* the usage-access settings screen has been opened
  today,         \* history of the current calendar day
  call           \* the latest direct call of an exported function

vars ==
  <<platform, configured, nativeLinked, permission, usage, clock, kv, questions,
    nextQid, entries, runs, started, settingsOpened, today, call>>

isUsageStatsAvailable == platform = "android" /\ nativeLinked

\* getSupabaseClient returns a client; it throws without URL and key
getSupabaseClient == configured

Now == CalendarDate(clock.n, clock.hm)

\* ------------------------------------------------------- key-value store
NoCache == [present |-> FALSE, wellFormed |-> FALSE, obj |-> <<>>]

\* A stored JSON text is kept as the object it encodes, each member tagged
\* with its JSON type, plus whether the text is well formed at all.
JSONstringify(qids) ==
  [present |-> TRUE, wellFormed |-> TRUE,
   obj |-> [s \in DOMAIN qids |-> [type |-> "number", n |-> qids[s]]]]

\* JSON.parse: [ok, value]; ok = FALSE stands for the SyntaxError
JSONparse(item) == [ok |-> item.wellFormed, value |-> item.obj]

areValidQids(v) ==
  \A s \in SlotSet : s \in DOMAIN v /\ v[s].type = "number"

\* Seeded fault: the cached registry is never used.
cachedQidsIgnored(item) == [hit |-> FALSE, qids |-> <<>>]

\* What ensureUsageQuestions takes from the cache: [hit, qids]
cachedQids(item) ==
  IF ~item.present THEN [hit |-> FALSE, qids |-> <<>>]
  ELSE LET parsed == JSONparse(item)
       IN IF parsed.ok /\ areValidQids(parsed.value)
            THEN [hit |-> TRUE,
                  qids |-> [s \in DOMAIN parsed.value |-> parsed.value[s].n]]
            ELSE [hit |-> FALSE, qids |-> <<>>]

\* Seeded fault: a stored value is returned whatever its shape.
getDailyTargetTimeUnchecked(v) ==
  IF v # NoItem THEN v ELSE DEFAULT_DAILY_TIME_HHMM

getDailyTargetTime(v) ==
  IF v # NoItem /\ MatchesHHmm(v) THEN v ELSE DEFAULT_DAILY_TIME_HHMM

\* Seeded fault: the stored mark is not consulted.
isSubmissionDueIgnoringMark(last, now, targetHHmm) ==
  toMinutesSinceMidnight(now) >= hhmmToMinutes(targetHHmm)

\* Seeded fault: the target minute itself is still too early.
isSubmissionDueStrictlyAfter(last, now, targetHHmm) ==
  IF last = toISODate(now) THEN FALSE
  ELSE toMinutesSinceMidnight(now) > hhmmToMinutes(targetHHmm)

isSubmissionDue(last, now, targetHHmm) ==
  IF last = toISODate(now) THEN FALSE
  ELSE IF toMinutesSinceMidnight(now) < hhmmToMinutes(targetHHmm) THEN FALSE
  ELSE TRUE

\* ------------------------------------------------------ remote data store
Before(q, r) == q.order < r.order \/ (q.order = r.order /\ q.id <= r.id)

RECURSIVE SortQuestions(_)
SortQuestions(S) ==
  IF S = {} THEN <<>>
  ELSE LET m == CHOOSE q \in S : \A r \in S : Before(q, r)
       IN <<m>> \o SortQuestions(S \ {m})

supaGetQuestions(qs) == SortQuestions({q \in qs : q.active})

\* new Map(all.map(q => [q.question, q])).get(text): the last row wins
\* Seeded fault: the lookup by text finds only the first listed question.
mapByTextHasFirstOnly(all, text) == Len(all) >= 1 /\ all[1].question = text

mapByTextHas(all, text) == \E i \in 1..Len(all) : all[i].question = text
mapByTextGet(all, text) ==
  all[CHOOSE i \in 1..Len(all) :
        all[i].question = text
        /\ \A j \in (i + 1)..Len(all) : all[j].question # text]

newQuestionRow(id, text, order) ==
  [id |-> id, question |-> text, order |-> order, active |-> TRUE]

toDiaryEntryInsert(entry) ==
  [question_id |-> entry.questionID, date |-> entry.date, time |-> entry.time,
   value |-> entry.value, for_day |-> entry.forDay]

\* Seeded fault: the delete also filters on the time of the entry.
setDeleteMatchesWithTime(row, entry) ==
  /\ row.question_id = entry.questionID
  /\ row.date = entry.date
  /\ row.time = entry.time
  /\ row.for_day = entry.forDay

\* rows the delete of supaSetDiaryEntry removes
setDeleteMatches(row, entry) ==
  /\ row.question_id = entry.questionID
  /\ row.date = entry.date
  /\ row.for_day = entry.forDay

deleteForSet(tbl, entry) ==
  LET keep == {row \in DOMAIN tbl : ~setDeleteMatches(row, entry)}
  IN [row \in keep |-> tbl[row]]

insertRow(tbl, row) == tbl (+) SetToBag({row})

\* diary_entries.question_id references questions(id): an insert for a
\* question that does not exist is refused
questionExists(tbl, id) == \E q \in tbl : q.id = id

\* delete from questions where id = id
supaDeleteQuestion(tbl, id) == {q \in tbl : q.id # id}

\* "on delete cascade": the diary entries of a deleted question go with it
deleteCascade(tbl, id) ==
  LET keep == {row \in DOMAIN tbl : row.question_id # id}
  IN [row \in keep |-> tbl[row]]

\* ------------------------------------------------------ collectAndSubmit
NumberValue(n) == [kind |-> "number", num |-> n, str |-> ""]
TextValue(s) == [kind |-> "text", num |-> 0, str |-> s]

entryOf(qid, todayISO, timeHHmm, value) ==
  [questionID |-> qid, date |-> todayISO, time |-> timeHHmm,
   value |-> value, forDay |-> "today"]

\* Seeded fault: the social and music minutes are exchanged.
buildEntriesExchanged(qids, todayISO, timeHHmm, summary) ==
  << entryOf(qids.totalMinutes, todayISO, timeHHmm,
             NumberValue(msToMinutes(summary.totalScreenTimeMs))),
     entryOf(qids.socialMinutes, todayISO, timeHHmm,
             NumberValue(msToMinutes(summary.musicMs))),
     entryOf(qids.musicMinutes, todayISO, timeHHmm,
             NumberValue(msToMinutes(summary.socialMs))),
     entryOf(qids.lastApp, todayISO, timeHHmm,
             TextValue(lastAppLabel(summary))) >>

buildEntries(qids, todayISO, timeHHmm, summary) ==
  << entryOf(qids.totalMinutes, todayISO, timeHHmm,
             NumberValue(msToMinutes(summary.totalScreenTimeMs))),
     entryOf(qids.socialMinutes, todayISO, timeHHmm,
             NumberValue(msToMinutes(summary.socialMs))),
     entryOf(qids.musicMinutes, todayISO, timeHHmm,
             NumberValue(msToMinutes(summary.musicMs))),
     entryOf(qids.lastApp, todayISO, timeHHmm,
             TextValue(lastAppLabel(summary))) >>

qidsOf(ids) ==
  [totalMinutes |-> ids[1], socialMinutes |-> ids[2],
   musicMinutes |-> ids[3], lastApp |-> ids[4]]


\* ------------------------------------------------------------ invocations
NoQids == [s \in SlotSet |-> 0]
NoSnap ==
  [kv |-> <<>>, questions |-> {}, entries |-> EmptyBag,
   settingsOpened |-> FALSE]

IdleRun ==
  [pc |-> "idle", kind |-> "none", now |-> NoDate,
   targetHHmm |-> NoItem, last |-> NoItem, todayISO |-> NoItem,
   timeHHmm |-> NoItem, summary |-> ZeroSummary, all |-> <<>>, ids |-> <<>>,
   qids |-> NoQids, entries |-> <<>>, idx |-> 0,
   result |-> FALSE, stage |-> "none",
   \* who awaits the invocation, what that caller makes of its outcome, and
   \* whether the permission query itself failed
   caller |-> "none", host |-> "none", accessError |-> FALSE,
   \* history of this invocation: the day and the stores when it began, how
   \* today's latest due-path submission had ended, and what it has done
   day0 |-> NoItem, snap |-> NoSnap, prevDue |-> "none",
   cacheHit |-> FALSE, pre4 |-> FALSE, nCollect |-> 0, nCreated |-> 0,
   nWrites |-> 0, nDeleted |-> 0, nKv |-> 0]

AllIdle == \A q \in Procs : runs[q].pc = "idle"

\* Between invocations, while the bound leaves room for an invocation that
\* can observe the change.
BetweenRuns == AllIdle /\ started < MaxRuns

\* Invocations of this specification do not overlap.
Sequential(p) == p = 1 /\ AllIdle

\* Who awaits an invocation that begins in slot p
callerOf(p, kind) ==
  IF kind = "manual" THEN "settings"
  ELSE IF p = TaskSlot THEN "task"
  ELSE "foreground"

Began(p, kind) ==
  [IdleRun EXCEPT !.kind = kind, !.caller = callerOf(p, kind),
                  !.day0 = toISODate(Now),
                  !.snap = [kv |-> kv, questions |-> questions,
                            entries |-> entries,
                            settingsOpened |-> settingsOpened],
                  !.prevDue = today.lastDue]

\* Seeded fault: the task callback lets the exception through.
taskCallbackRethrowing(r) ==
  IF r.pc = "failed" THEN "rejected"
  ELSE IF r.result THEN "NewData"
  ELSE "NoData"

\* The callback of the background task: the BackgroundFetchResult it
\* returns for an invocation of runIfDueNow that has ended as r
taskCallback(r) ==
  IF r.pc = "failed" THEN "Failed"
  ELSE IF r.result THEN "NewData"
  ELSE "NoData"

\* registerUsageBackgroundTask: the foreground check logs an exception
foregroundKick(r) == "resolved"

\* Seeded fault: the manual path swallows the exception.
runOnceNowSwallowing(r) == "resolved"

\* runOnceNow awaits collectAndSubmit and nothing else
runOnceNow(r) == IF r.pc = "failed" THEN "rejected" ELSE "resolved"

\* The invocation has ended as r: what its caller hands on
Delivered(r) ==
  [r EXCEPT !.host = CASE r.caller = "task" -> taskCallback(r)
                       [] r.caller = "foreground" -> foregroundKick(r)
                       [] OTHER -> runOnceNow(r)]

Returned(r, value, stage) ==
  Delivered([r EXCEPT !.pc = "done", !.result = value, !.stage = stage])

Threw(r, stage) == Delivered([r EXCEPT !.pc = "failed", !.stage = stage])

\* subs: due-path submissions completed today; elig: a due-check ran today
\* at or after the target time; dirty: a due-path failure or a debug reset
\* happened today; lastDue: how today's latest due-path submission ended
\* ("partialWrite": a write failed after at least one entry was written);
\* received: the entries (1..4) whose write succeeded today
NewDay ==
  [subs |-> 0, elig |-> FALSE, dirty |-> FALSE, lastDue |-> "none",
   received |-> {}]

\* Seeded fault: the mark is stored although collectAndSubmit raised.
runIfDueNowOnThrowMarking(store, now) ==
  [store EXCEPT !.last = toISODate(now)]

\* The key-value store once an exception of collectAndSubmit has left
\* runIfDueNow: markSubmittedForToday is skipped.
runIfDueNowOnThrow(store, now) == store

\* A step of invocation p raised: the exception leaves the invocation,
\* which was in state r when it raised.
ThrowRun(p, r, stage) ==
  /\ runs' = [runs EXCEPT ![p] = Threw(r, stage)]
  /\ kv' = IF r.kind = "due" THEN runIfDueNowOnThrow(kv, r.now) ELSE kv
  /\ today' = IF r.kind = "due"
                THEN [today EXCEPT !.dirty = TRUE,
                                   !.lastDue = IF stage = "write" /\ r.idx >= 1
                                                 THEN "partialWrite"
                                                 ELSE stage]
                ELSE today

\* What no step of an invocation changes.
Env == <<platform, configured, nativeLinked, usage, call>>

\* Seeded fault: the store configuration is looked at before the platform.
firstFailedPreconditionReordered(os, isConfigured, isAvailable) ==
  IF ~isConfigured THEN "configured"
  ELSE IF os # "android" THEN "platform"
  ELSE IF ~isAvailable THEN "available"
  ELSE "none"

\* The synchronous checks that open runIfDueNow: the first that fails
firstFailedPrecondition(os, isConfigured, isAvailable) ==
  IF os # "android" THEN "platform"
  ELSE IF ~isConfigured THEN "configured"
  ELSE IF ~isAvailable THEN "available"
  ELSE "none"

\* runIfDueNow up to its first await
runIfDueNowBegin(p) ==
  /\ runs[p].pc = "idle"
  /\ started < MaxRuns
  /\ started' = started + 1
  /\ LET failed == firstFailedPrecondition(platform, configured,
                                           isUsageStatsAvailable)
     IN runs' = [runs EXCEPT ![p] =
          IF failed # "none" THEN Returned(Began(p, "due"), FALSE, failed)
          ELSE [Began(p, "due") EXCEPT !.pc = "access"]]
  /\ UNCHANGED <<Env, permission, clock, kv, questions, nextQid, entries,
                 settingsOpened, today>>

StartRunIfDueNow(p) == Sequential(p) /\ runIfDueNowBegin(p)

\* hasUsageAccess: the answer of the native module, false when the query
\* raises
hasUsageAccess(granted, queryFails) == IF queryFails THEN FALSE ELSE granted

\* hasUsageAccess resolves; on true, now = new Date()
CheckAccess(p) ==
  /\ runs[p].pc = "access"
  /\ \E queryFails \in BOOLEAN :
       runs' = [runs EXCEPT ![p] =
         IF ~hasUsageAccess(permission, queryFails)
           THEN Returned([@ EXCEPT !.accessError = queryFails],
                         FALSE, "access")
           ELSE [@ EXCEPT !.pc = "readTarget", !.now = Now]]
  /\ UNCHANGED <<Env, permission, clock, kv, questions, nextQid, entries,
                 started, settingsOpened, today>>

\* target = await getDailyTargetTime()
ReadTarget(p) ==
  /\ runs[p].pc = "readTarget"
  /\ runs' = [runs EXCEPT ![p] =
       [@ EXCEPT !.pc = "dueCheck",
                 !.targetHHmm = getDailyTargetTime(kv.target)]]
  /\ UNCHANGED <<Env, permission, clock, kv, questions, nextQid, entries,
                 started, settingsOpened, today>>

\* await isSubmissionDue(now, target); if due, collectAndSubmit starts
DueCheck(p) ==
  /\ runs[p].pc = "dueCheck"
  /\ LET r == runs[p]
         due == isSubmissionDue(kv.last, r.now, r.targetHHmm)
     IN /\ runs' = [runs EXCEPT ![p] =
             IF ~due THEN Returned([r EXCEPT !.last = kv.last], FALSE, "notDue")
             ELSE [r EXCEPT !.pc = "collect", !.last = kv.last,
                            !.todayISO = toISODate(r.now),
                            !.timeHHmm = r.targetHHmm]]
        /\ today' =
             IF toMinutesSinceMidnight(r.now) >= hhmmToMinutes(r.targetHHmm)
               THEN [today EXCEPT !.elig = TRUE]
               ELSE today
  /\ UNCHANGED <<Env, permission, clock, kv, questions, nextQid, entries,
                 started, settingsOpened>>

\* runOnceNow: collectAndSubmit({enforce: true}) up to its first await
runOnceNowBegin(p) ==
  /\ runs[p].pc = "idle"
  /\ started < MaxRuns
  /\ started' = started + 1
  /\ runs' = [runs EXCEPT ![p] =
       [Began(p, "manual") EXCEPT !.pc = "collect", !.now = Now,
                                  !.todayISO = toISODate(Now),
                                  !.timeHHmm = toHHmm(Now)]]
  /\ UNCHANGED <<Env, permission, clock, kv, questions, nextQid, entries,
                 settingsOpened, today>>

StartRunOnceNow(p) == Sequential(p) /\ runOnceNowBegin(p)

\* UsageStatsModule.getTodayUsageSummary (Kotlin): zeros without permission
nativeSummary(granted, counters) ==
  IF ~granted THEN ZeroSummary ELSE counters

\* getTodayUsageSummary: the guards, then the native call
Collect(p) ==
  /\ runs[p].pc = "collect"
  /\ LET called == [runs[p] EXCEPT !.nCollect = @ + 1]
     IN \/ /\ ~isUsageStatsAvailable
           /\ ThrowRun(p, runs[p], "collect")
        \/ /\ isUsageStatsAvailable
           /\ ThrowRun(p, called, "collect")  \* the native call rejects
        \/ /\ isUsageStatsAvailable
           /\ runs' = [runs EXCEPT ![p] =
                [called EXCEPT !.pc = "readCache",
                               !.summary = nativeSummary(permission, usage)]]
           /\ UNCHANGED <<kv, today>>
  /\ UNCHANGED <<Env, permission, clock, questions, nextQid, entries,
                 started, settingsOpened>>

AllFourExist(qs) == \A t \in QTextSet : \E q \in qs : q.question = t

\* ensureUsageQuestions: the cached registry
ReadCache(p) ==
  /\ runs[p].pc = "readCache"
  /\ LET r == runs[p]
         c == cachedQids(kv.qids)
     IN runs' = [runs EXCEPT ![p] =
          IF c.hit
            THEN [r EXCEPT !.pc = "del", !.qids = c.qids, !.cacheHit = TRUE,
                           !.entries = buildEntries(c.qids, r.todayISO,
                                                    r.timeHHmm, r.summary)]
            ELSE [r EXCEPT !.pc = "list"]]
  /\ UNCHANGED <<Env, permission, clock, kv, questions, nextQid, entries,
                 started, settingsOpened, today>>

\* all = await supaGetQuestions(); mapByText
ListQuestions(p) ==
  /\ runs[p].pc = "list"
  /\ \/ ThrowRun(p, runs[p], "registry")  \* no client, or the select fails
     \/ /\ getSupabaseClient
        /\ runs' = [runs EXCEPT ![p] =
             [@ EXCEPT !.pc = "ensure", !.all = supaGetQuestions(questions),
                       !.pre4 = AllFourExist(questions)]]
        /\ UNCHANGED <<kv, today>>
  /\ UNCHANGED <<Env, permission, clock, questions, nextQid, entries,
                 started, settingsOpened>>

\* order given to a question created by ensure
ensureOrder(all) == Len(all) + 1

AfterEnsure(r, id) ==
  LET ids == Append(r.ids, id)
  IN IF Len(ids) = 4
       THEN [r EXCEPT !.pc = "saveCache", !.ids = ids, !.qids = qidsOf(ids)]
       ELSE [r EXCEPT !.ids = ids]

\* one call of ensure(text, ...): reuse by text, or supaInsertQuestion
Ensure(p) ==
  /\ runs[p].pc = "ensure"
  /\ LET r == runs[p]
         text == QTexts[Len(r.ids) + 1]
     IN IF mapByTextHas(r.all, text)
          THEN /\ runs' = [runs EXCEPT ![p] =
                    AfterEnsure(r, mapByTextGet(r.all, text).id)]
               /\ UNCHANGED <<questions, nextQid, kv, today>>
          ELSE \/ /\ ThrowRun(p, r, "registry")  \* the insert fails
                  /\ UNCHANGED <<questions, nextQid>>
               \/ /\ getSupabaseClient
                  /\ questions' = questions \cup
                       {newQuestionRow(nextQid, text, ensureOrder(r.all))}
                  /\ nextQid' = nextQid + 1
                  /\ runs' = [runs EXCEPT ![p] =
                       AfterEnsure([r EXCEPT !.nCreated = @ + 1], nextQid)]
                  /\ UNCHANGED <<kv, today>>
  /\ UNCHANGED <<Env, permission, clock, entries, started, settingsOpened>>

\* AsyncStorage.setItem(STORAGE_QIDS, JSON.stringify(qids)); build entries
SaveCache(p) ==
  /\ runs[p].pc = "saveCache"
  /\ LET r == runs[p]
     IN /\ kv' = [kv EXCEPT !.qids = JSONstringify(r.qids)]
        /\ runs' = [runs EXCEPT ![p] =
             [r EXCEPT !.pc = "del", !.nKv = @ + 1,
                       !.entries = buildEntries(r.qids, r.todayISO,
                                                r.timeHHmm, r.summary)]]
  /\ UNCHANGED <<Env, permission, clock, questions, nextQid, entries,
                 started, settingsOpened, today>>

\* supaSetDiaryEntry(entries[idx]): the delete request
SetEntryDelete(p) ==
  /\ runs[p].pc = "del"
  /\ LET r == [runs[p] EXCEPT !.nWrites = @ + 1]
         entry == r.entries[r.idx + 1]
     IN \/ /\ ThrowRun(p, r, "write")  \* no client, or the delete fails
           /\ UNCHANGED entries
        \/ /\ getSupabaseClient
           /\ entries' = deleteForSet(entries, entry)
           /\ runs' = [runs EXCEPT ![p] =
                [r EXCEPT !.pc = "ins",
                          !.nDeleted = IF entries' # entries THEN @ + 1 ELSE @]]
           /\ UNCHANGED <<kv, today>>
  /\ UNCHANGED <<Env, permission, clock, questions, nextQid, started,
                 settingsOpened>>

\* Seeded fault: the due path stops writing after the first entry.
afterInsertFirstOnly(r) ==
  IF r.kind = "due" THEN "mark"
  ELSE IF r.idx + 1 < Len(r.entries) THEN "del"
  ELSE "done"

\* Seeded fault: the manual path stores the mark as the due path does.
afterInsertManualMarks(r) ==
  IF r.idx + 1 < Len(r.entries) THEN "del" ELSE "mark"

\* where collectAndSubmit and its caller go once entries[idx] is written
afterInsert(r) ==
  IF r.idx + 1 < Len(r.entries) THEN "del"
  ELSE IF r.kind = "due" THEN "mark"
  ELSE "done"

\* supaSetDiaryEntry(entries[idx]): the insert request; then the next entry
SetEntryInsert(p) ==
  /\ runs[p].pc = "ins"
  /\ LET r == [runs[p] EXCEPT !.nWrites = @ + 1]
         entry == r.entries[r.idx + 1]
     IN \/ /\ ThrowRun(p, r, "write")  \* the insert fails
           /\ UNCHANGED entries
        \/ /\ getSupabaseClient
           /\ questionExists(questions, entry.questionID)
           /\ entries' = insertRow(entries, toDiaryEntryInsert(entry))
           /\ runs' = [runs EXCEPT ![p] =
                IF afterInsert(r) = "done"
                  THEN Returned([r EXCEPT !.idx = @ + 1], FALSE, "manual")
                  ELSE [r EXCEPT !.idx = @ + 1, !.pc = afterInsert(r)]]
           /\ today' = [today EXCEPT !.received = @ \cup {r.idx + 1}]
           /\ UNCHANGED kv
  /\ UNCHANGED <<Env, permission, clock, questions, nextQid, started,
                 settingsOpened>>

\* Seeded fault: the mark is stored without zero padding.
markSubmittedForTodayUnpadded(store, now) ==
  [store EXCEPT !.last = NumToStr(now.fullYear) \o <<"-">>
                           \o NumToStr(now.month + 1) \o <<"-">>
                           \o NumToStr(now.date)]

markSubmittedForToday(store, now) == [store EXCEPT !.last = toISODate(now)]

\* await markSubmittedForToday(now); return true
MarkSubmitted(p) ==
  /\ runs[p].pc = "mark"
  /\ \/ ThrowRun(p, runs[p], "mark")  \* setItem rejects
     \/ /\ kv' = markSubmittedForToday(kv, runs[p].now)
        /\ runs' = [runs EXCEPT ![p] =
             Returned([@ EXCEPT !.nKv = @ + 1], TRUE, "submitted")]
        /\ today' = [today EXCEPT !.subs = @ + 1, !.lastDue = "ok"]
  /\ UNCHANGED <<Env, permission, clock, questions, nextQid, entries,
                 started, settingsOpened>>

\* the caller receives the result or the exception
Return(p) ==
  /\ runs[p].pc \in {"done", "failed"}
  /\ runs' = [runs EXCEPT ![p] = IdleRun]
  /\ UNCHANGED <<Env, permission, clock, kv, questions, nextQid, entries,
                 started, settingsOpened, today>>

\* ------------------------------------------------------------ environment
\* Time passes between invocations.
Tick ==
  /\ BetweenRuns
  /\ \E n \in clock.n..LastDay, hm \in ClockTimes :
       /\ \/ n > clock.n
          \/ n = clock.n /\ hm[1] * 60 + hm[2] > clock.hm[1] * 60 + clock.hm[2]
       /\ clock' = [n |-> n, hm |-> hm]
       /\ today' = IF n > clock.n THEN NewDay ELSE today
  /\ UNCHANGED <<Env, permission, kv, questions, nextQid, entries, runs,
                 started, settingsOpened>>

\* promptUsageAccessIfNeeded in the foreground: the settings screen opens
\* when access is not granted, and the user may grant it there (the first
\* prompt of a behaviour; later ones repeat it).
PromptUsageAccessIfNeeded ==
  /\ platform = "android"
  /\ BetweenRuns
  /\ ~(isUsageStatsAvailable /\ permission)
  /\ ~settingsOpened
  /\ settingsOpened' = TRUE
  /\ permission' \in BOOLEAN
  /\ UNCHANGED <<Env, clock, kv, questions, nextQid, entries, runs, started,
                 today>>

\* The user withdraws usage access in the system settings.
RevokePermission ==
  /\ permission
  /\ BetweenRuns
  /\ permission' = FALSE
  /\ UNCHANGED <<Env, clock, kv, questions, nextQid, entries, runs, started,
                 settingsOpened, today>>

\* Seeded fault: the string is stored without looking at its shape.
setDailyTargetTimeUnchecked(hhmm) == kv' = [kv EXCEPT !.target = hhmm]

setDailyTargetTime(hhmm) ==
  /\ MatchesHHmm(hhmm)
  /\ kv' = [kv EXCEPT !.target = hhmm]

SetDailyTargetTime ==
  /\ BetweenRuns
  /\ \E hhmm \in TargetInputs :
       \/ setDailyTargetTime(hhmm)
       \/ ~MatchesHHmm(hhmm) /\ UNCHANGED kv
  /\ UNCHANGED <<Env, permission, clock, questions, nextQid, entries, runs,
                 started, settingsOpened, today>>

\* Seeded fault: the reset removes the target time as well.
debugResetStateAll(store) ==
  [store EXCEPT !.qids = NoCache, !.last = NoItem, !.target = NoItem]

\* multiRemove([STORAGE_QIDS, STORAGE_LAST_SUBMITTED_DATE])
debugResetState(store) == [store EXCEPT !.qids = NoCache, !.last = NoItem]

\* __debugResetState
DebugResetState ==
  /\ BetweenRuns
  /\ kv.qids.present \/ kv.last # NoItem
  /\ kv' = debugResetState(kv)
  /\ today' = [today EXCEPT !.dirty = TRUE]
  /\ UNCHANGED <<Env, permission, clock, questions, nextQid, entries, runs,
                 started, settingsOpened>>

\* The cached registry is damaged outside the scheduler: a text that is no
\* JSON, or an object without the four numbers (its removal is part of
\* DebugResetState).
LostCaches ==
  { [present |-> TRUE, wellFormed |-> FALSE, obj |-> <<>>],
    [present |-> TRUE, wellFormed |-> TRUE,
     obj |-> [s \in {"totalMinutes"} |-> [type |-> "number", n |-> 1]]] }

LoseCache ==
  /\ BetweenRuns
  /\ cachedQids(kv.qids).hit
  /\ \E c \in LostCaches : kv' = [kv EXCEPT !.qids = c]
  /\ UNCHANGED <<Env, permission, clock, questions, nextQid, entries, runs,
                 started, settingsOpened, today>>

\* ---------------------------------------------------------- specification
Init ==
  /\ platform \in {"android", "ios"}
  /\ configured \in BOOLEAN
  /\ nativeLinked \in BOOLEAN
  /\ permission = FALSE
  /\ usage \in {s \in SummaryInputs :
                  s.lastApp.hasLabel /\ s.lastApp.label # ""}
  /\ clock = [n |-> 1, hm |-> <<20, 59>>]
  /\ kv = [last |-> NoItem, target |-> NoItem, qids |-> NoCache]
  /\ questions = {}
  /\ nextQid = 1
  /\ entries = EmptyBag
  /\ runs = [p \in Procs |-> IdleRun]
  /\ started = 0
  /\ settingsOpened = FALSE
  /\ today = NewDay
  /\ call = NoCall

Next ==
  \/ \E p \in Procs :
       \/ StartRunIfDueNow(p)
       \/ CheckAccess(p)
       \/ ReadTarget(p)
       \/ DueCheck(p)
       \/ StartRunOnceNow(p)
       \/ Collect(p)
       \/ ReadCache(p)
       \/ ListQuestions(p)
       \/ Ensure(p)
       \/ SaveCache(p)
       \/ SetEntryDelete(p)
       \/ SetEntryInsert(p)
       \/ MarkSubmitted(p)
       \/ Return(p)
  \/ Tick
  \/ PromptUsageAccessIfNeeded
  \/ RevokePermission
  \/ SetDailyTargetTime
  \/ DebugResetState
  \/ LoseCache

Spec == Init /\ [][Next]_vars

\* Every precondition holds at the start, on the last day, and
\* the collector may report any of the summaries.
InitPayload ==
  /\ platform = "android"
  /\ configured = TRUE
  /\ nativeLinked = TRUE
  /\ permission = TRUE
  /\ usage \in SummaryInputs \cup {ZeroSummary}
  /\ clock = [n |-> LastDay, hm |-> <<20, 59>>]
  /\ kv = [last |-> NoItem, target |-> NoItem, qids |-> NoCache]
  /\ questions = {}
  /\ nextQid = 1
  /\ entries = EmptyBag
  /\ runs = [p \in Procs |-> IdleRun]
  /\ started = 0
  /\ settingsOpened = FALSE
  /\ today = NewDay
  /\ call = NoCall

SpecPayload == InitPayload /\ [][Next]_vars

\* ------------------------------------------------------------- properties
DueRuns == {r \in {runs[p] : p \in Procs} : r.kind = "due"}

\* The due-check of r has been evaluated / has found the submission due.
Evaluated(r) ==
  /\ r.kind = "due"
  /\ \/ r.pc \in {"collect", "readCache", "list", "ensure", "saveCache",
                  "del", "ins", "mark", "failed"}
     \/ r.pc = "done" /\ r.stage \in {"notDue", "submitted"}
Proceeded(r) == Evaluated(r) /\ ~(r.pc = "done" /\ r.stage = "notDue")

\* Minutes since local midnight of a date, and of a stored "HH:mm" target
NowMinutes(r) == r.now.hours * 60 + r.now.minutes
StoredTarget ==
  IF kv.target = NoItem THEN <<"2", "1", ":", "0", "0">> ELSE kv.target
TargetMinutes ==
  (DigitVal(StoredTarget[1]) * 10 + DigitVal(StoredTarget[2])) * 60
    + DigitVal(StoredTarget[4]) * 10 + DigitVal(StoredTarget[5])

\* Nothing outside the invocation r has changed since it began.
NoEffect(r) ==
  /\ kv = r.snap.kv
  /\ questions = r.snap.questions
  /\ entries = r.snap.entries
  /\ settingsOpened = r.snap.settingsOpened
  /\ r.nWrites = 0 /\ r.nCreated = 0 /\ r.nCollect = 0 /\ r.nKv = 0

\* C1: an invocation of runIfDueNow that begins on a day D on which an
\* earlier invocation has submitted and the mark is D writes no diary entry,
\* creates no question, does not call the collector, leaves the mark
\* unchanged and returns false, whatever the clock and the target time.
C1_IdempotentPerDay ==
  \A r \in DueRuns :
    (today.subs >= 1 /\ r.snap.kv.last = r.day0) =>
      /\ NoEffect(r)
      /\ kv.last = r.day0
      /\ r.pc \in {"access", "readTarget", "dueCheck", "done"}
      /\ r.pc = "done" => r.result = FALSE

C1_Witness ==
  \E r \in DueRuns :
    /\ today.subs >= 1 /\ r.snap.kv.last = r.day0
    /\ r.pc = "done" /\ r.stage = "notDue"
    /\ NowMinutes(r) >= TargetMinutes

\* C2: once the four preconditions have passed and the mark differs from
\* today, the submission runs iff the minutes since local midnight are at
\* least the minutes of the target time; with target 21:00 it does not run
\* at 20:59 and runs at 21:00; no entry is written before the target time.
C2_DueBoundary ==
  \A r \in DueRuns :
    /\ (Evaluated(r) /\ r.last # r.day0) =>
         /\ Proceeded(r) <=> NowMinutes(r) >= TargetMinutes
         /\ (TargetMinutes = 21 * 60 /\ NowMinutes(r) = 20 * 60 + 59)
              => ~Proceeded(r)
         /\ (TargetMinutes = 21 * 60 /\ NowMinutes(r) = 21 * 60)
              => Proceeded(r)
    /\ r.nWrites > 0 => NowMinutes(r) >= TargetMinutes

C2_Witness ==
  \E r \in DueRuns :
    /\ Proceeded(r) /\ r.last # r.day0 /\ r.nWrites > 0
    /\ TargetMinutes = 21 * 60 /\ NowMinutes(r) = 21 * 60

\* The check at which runIfDueNow is to stop, in the stated order
ExpectedStop(r) ==
  IF platform # "android" THEN "platform"
  ELSE IF ~configured THEN "configured"
  ELSE IF ~nativeLinked THEN "available"
  ELSE IF ~permission \/ r.accessError THEN "access"
  ELSE IF r.snap.kv.last = r.day0 \/ NowMinutes(r) < TargetMinutes THEN "notDue"
  ELSE "none"

\* C3: runIfDueNow checks platform, store configuration, collector module
\* and permission in this order; at the first check that fails, and when
\* the submission is not due, it returns false: it raises nothing, does not
\* call the collector, writes nothing to the store or to the key-value
\* store, and opens no settings screen.
C3_PreconditionShortCircuit ==
  \A r \in DueRuns :
    /\ (r.pc = "done" /\ r.stage # "submitted") =>
         /\ r.stage = ExpectedStop(r)
         /\ r.result = FALSE
         /\ NoEffect(r)
    /\ r.pc \in {"access", "readTarget", "dueCheck"} => NoEffect(r)
    /\ ~Proceeded(r) => r.pc # "failed"
    /\ Proceeded(r) =>
         /\ platform = "android" /\ configured /\ nativeLinked
         /\ r.now = Now
         /\ r.snap.kv.last # r.day0 /\ NowMinutes(r) >= TargetMinutes

C3_Witness ==
  \E r \in DueRuns :
    /\ r.pc = "done" /\ r.stage = "access"
    /\ platform = "android" /\ configured /\ nativeLinked /\ ~permission

\* C4: when the collector call of a due run fails, no diary entry has been
\* written and the mark is not updated, and the next due-check of the same
\* day at or after the target time finds the submission due again.
C4_CollectorFailure ==
  \A r \in DueRuns :
    /\ (r.pc = "failed" /\ r.stage = "collect") =>
         /\ entries = r.snap.entries /\ r.nWrites = 0
         /\ questions = r.snap.questions
         /\ kv = r.snap.kv
    /\ (r.prevDue = "collect" /\ Evaluated(r)
          /\ NowMinutes(r) >= TargetMinutes) => Proceeded(r)

C4_Witness ==
  \E r \in DueRuns :
    r.prevDue = "collect" /\ r.pc = "readCache" /\ r.nCollect = 1

FourRows(r) ==
  {toDiaryEntryInsert(r.entries[i]) : i \in 1..Len(r.entries)}

\* C5: the due path stores the mark only after the four writes of
\* collectAndSubmit have succeeded: while the submission is under way, and
\* after it failed in the registry or in a write, the mark keeps the value
\* it had; when the mark is today's date the store has received a
\* successful write of each of the four entries dated today.
C5_MarkAfterWrites ==
  /\ \A r \in DueRuns :
       /\ (r.pc = "done" /\ r.stage = "submitted") =>
            /\ kv.last = r.day0
            /\ r.idx = 4 /\ Len(r.entries) = 4
            /\ \A row \in FourRows(r) :
                 row.date = r.day0 /\ BagIn(row, entries)
       /\ (Proceeded(r) /\ r.pc # "done") => kv.last = r.snap.kv.last
  /\ today.received # 1..4 => (kv.last = NoItem \/ kv.last # toISODate(Now))

C5_Witness ==
  \E r \in DueRuns :
    r.pc = "done" /\ r.stage = "submitted" /\ kv.last = r.day0 /\ r.idx = 4


Submitted(r) == r.kind = "due" /\ r.pc = "done" /\ r.stage = "submitted"

\* The rows of the store with the key of entry e
RowsFor(e) == {row \in DOMAIN entries : setDeleteMatches(row, e)}

\* C6 as stated: after a due run of day D failed partway through the four
\* writes, no later due-check of day D finds the submission due.
C6_NoRetriggerSameDay ==
  \A r \in DueRuns : r.prevDue = "partialWrite" => ~Proceeded(r)

\* C6: after a due run of day D failed partway through the four writes the
\* mark is not D, so the next due-check of day D at or after the target time
\* finds the submission due again, and a run that then completes leaves
\* exactly its own four rows for day D.
C6_PartialWriteRetriedSameDay ==
  \A r \in DueRuns :
    r.prevDue = "partialWrite" =>
      /\ r.snap.kv.last # r.day0
      /\ Evaluated(r) => (Proceeded(r) <=> NowMinutes(r) >= TargetMinutes)
      /\ Submitted(r) =>
           \A i \in 1..4 :
             /\ RowsFor(r.entries[i]) = {toDiaryEntryInsert(r.entries[i])}
             /\ CopiesIn(toDiaryEntryInsert(r.entries[i]), entries) = 1

C6_Witness ==
  \E r \in DueRuns : r.prevDue = "partialWrite" /\ Submitted(r)

\* C7: without a failure of the due path and without a debug reset on the
\* day, a day with a due-check at or after the target time has exactly one
\* due-path submission (one collector call, four entries written, one mark
\* update) and the mark is that day; a day without one has none.
C7_ExactlyOncePerDay ==
  /\ ~today.dirty => today.subs <= 1
  /\ (AllIdle /\ ~today.dirty) =>
       /\ today.elig <=> today.subs = 1
       /\ today.subs = 1 => kv.last = toISODate(Now)
  /\ \A r \in DueRuns :
       Submitted(r) =>
         /\ r.nCollect = 1
         /\ r.idx = 4 /\ r.nWrites = 8
         /\ r.nKv = (IF r.cacheHit THEN 1 ELSE 2)
         /\ kv.last = r.day0 /\ r.snap.kv.last # r.day0

C7_Witness ==
  \E r \in DueRuns :
    /\ Submitted(r) /\ ~today.dirty /\ today.subs = 1
    /\ r.snap.kv.last # NoItem

\* C8: the store holds at most one diary entry for each (question id, date,
\* forDay), in every state of non-overlapping invocations of runOnceNow and
\* runIfDueNow, failed ones included.
C8_OneEntryPerQuestionAndDay ==
  /\ \A row \in DOMAIN entries : entries[row] = 1
  /\ Cardinality({<<row.question_id, row.date, row.for_day>> :
                    row \in DOMAIN entries})
       = Cardinality(DOMAIN entries)

C8_Witness ==
  \E p \in Procs :
    /\ runs[p].nDeleted >= 1 /\ runs[p].idx = 4
    /\ \E row \in DOMAIN runs[p].snap.entries : ~BagIn(row, entries)

\* The question of the store that has text t and identifier id
IsQuestion(id, t) == \E q \in questions : q.id = id /\ q.question = t

\* C9: the store holds at most one question for each of the four fixed
\* texts; a resolution that misses the cache while the four questions exist
\* creates no question and returns, for each text, the identifier of the
\* existing question with that text.
C9_NoDuplicateAutoQuestions ==
  /\ \A q1, q2 \in questions :
       (q1.question \in QTextSet /\ q1.question = q2.question) => q1 = q2
  /\ \A p \in Procs :
       LET r == runs[p]
       IN (r.pre4 /\ ~r.cacheHit) =>
            /\ r.nCreated = 0
            /\ questions = r.snap.questions
            /\ \A i \in 1..Len(r.ids) : IsQuestion(r.ids[i], QTexts[i])
            /\ r.pc \in {"saveCache", "del", "ins", "mark", "done"} =>
                 /\ Len(r.ids) = 4
                 /\ r.qids = qidsOf(r.ids)
                 /\ \A i \in 1..4 : IsQuestion(r.qids[Slots[i]], QTexts[i])

C9_Witness ==
  \E p \in Procs :
    /\ runs[p].pre4 /\ ~runs[p].cacheHit /\ runs[p].pc = "del"
    /\ ~cachedQids(runs[p].snap.kv.qids).hit

\* Minutes of a duration in milliseconds, halves rounded up
ExpectedMinutes(ms) ==
  CHOOSE m \in 0..200 : 60000 * m - 30000 <= ms /\ ms < 60000 * m + 30000

ExpectedLabel(summary) ==
  IF ~summary.hasLastApp THEN "Unbekannt"
  ELSE IF summary.lastApp.hasLabel /\ summary.lastApp.label # ""
    THEN summary.lastApp.label
  ELSE summary.lastApp.packageName

ExpectedValues(summary) ==
  << [kind |-> "number", num |-> ExpectedMinutes(summary.totalScreenTimeMs),
      str |-> ""],
     [kind |-> "number", num |-> ExpectedMinutes(summary.socialMs), str |-> ""],
     [kind |-> "number", num |-> ExpectedMinutes(summary.musicMs), str |-> ""],
     [kind |-> "text", num |-> 0, str |-> ExpectedLabel(summary)] >>

ExampleSummary ==
  [totalScreenTimeMs |-> 7260000, socialMs |-> 1800000, musicMs |-> 0,
   hasLastApp |-> TRUE,
   lastApp |-> [packageName |-> "com.example", hasLabel |-> TRUE,
                label |-> "Example"]]

\* C10: collectAndSubmit builds four entries, for the registry slots
\* totalMinutes, socialMinutes, musicMinutes, lastApp in this order, dated
\* today with one shared time, whose values are the rounded minutes of the
\* total, social and music durations and the label of the last-used app (its
\* package when the label is missing or empty, "Unbekannt" without a
\* last-used app), and writes them in this order; the totals 7260000,
\* 1800000 and 0 ms with label "Example" give 121, 30, 0, "Example".
C10_PayloadValues ==
  \A p \in Procs :
    LET r == runs[p]
    IN r.pc \in {"del", "ins", "mark", "done"} /\ r.entries # <<>> =>
         /\ Len(r.entries) = 4
         /\ \A i \in 1..4 :
              /\ r.entries[i].questionID = r.qids[Slots[i]]
              /\ r.entries[i].value = ExpectedValues(r.summary)[i]
              /\ r.entries[i].date = r.day0
              /\ r.entries[i].time = r.entries[1].time
              /\ r.entries[i].forDay = "today"
              /\ i <= r.idx =>
                   RowsFor(r.entries[i]) = {toDiaryEntryInsert(r.entries[i])}
         /\ r.summary = ExampleSummary =>
              /\ r.entries[1].value.num = 121 /\ r.entries[2].value.num = 30
              /\ r.entries[3].value.num = 0
              /\ r.entries[4].value.str = "Example"
         /\ r.pc \in {"mark", "done"} => r.idx = 4 /\ r.nWrites = 8

C10_Witness ==
  \E p \in Procs :
    /\ runs[p].idx = 4 /\ runs[p].summary = ExampleSummary
    /\ \E row \in DOMAIN entries : row.value = [kind |-> "number", num |-> 121,
                                                 str |-> ""]
    /\ \E row \in DOMAIN entries : row.value = [kind |-> "text", num |-> 0,
                                                 str |-> "Example"]

\* ------------------------------------------------ the daily target time
\* The settings screen calls setDailyTargetTime(hhmm): the call stores the
\* string, or raises 'Invalid time format. Expected "HH:mm".' and stores
\* nothing. before: the stored item when the call began; accepted: the
\* latest string a call has stored.
CallSetDailyTargetTime ==
  /\ \E hhmm \in TimeInputs :
       \/ /\ setDailyTargetTime(hhmm)
          /\ call' = [NoCall EXCEPT !.op = "setDailyTargetTime", !.arg = hhmm,
                                    !.before = kv.target, !.accepted = hhmm]
       \/ /\ ~MatchesHHmm(hhmm)
          /\ call' = [NoCall EXCEPT !.op = "setDailyTargetTime", !.arg = hhmm,
                                    !.threw = TRUE, !.before = kv.target,
                                    !.accepted = call.accepted]
          /\ UNCHANGED kv
  /\ UNCHANGED <<platform, configured, nativeLinked, usage, permission, clock,
                 questions, nextQid, entries, runs, started, settingsOpened,
                 today>>

\* A caller reads the target time back.
CallGetDailyTargetTime ==
  /\ call' = [NoCall EXCEPT !.op = "getDailyTargetTime",
                            !.result = getDailyTargetTime(kv.target),
                            !.before = kv.target, !.accepted = call.accepted]
  /\ UNCHANGED <<platform, configured, nativeLinked, usage, permission, clock,
                 kv, questions, nextQid, entries, runs, started,
                 settingsOpened, today>>

NextTarget == CallSetDailyTargetTime \/ CallGetDailyTargetTime

SpecTarget == InitPayload /\ [][NextTarget]_vars

\* The shape two digits, a colon, two digits
TwoDigitsColonTwoDigits(s) ==
  /\ Len(s) = 5
  /\ \A i \in {1, 2, 4, 5} :
       s[i] \in {"0", "1", "2", "3", "4", "5", "6", "7", "8", "9"}
  /\ s[3] = ":"

\* What a read of the target time returns after the calls so far
ExpectedTarget ==
  IF call.accepted = NoItem THEN DEFAULT_DAILY_TIME_HHMM ELSE call.accepted

\* C11: setDailyTargetTime(s) succeeds exactly when s is two digits, a
\* colon and two digits, and a later getDailyTargetTime then returns s
\* verbatim; any other string raises the invalid-time-format error and
\* leaves the stored target as it was, so that a later read returns the
\* string accepted before, or the default.
C11_TargetTimeValidated ==
  /\ call.op = "setDailyTargetTime" =>
       /\ call.threw <=> ~TwoDigitsColonTwoDigits(call.arg)
       /\ ~call.threw => kv.target = call.arg /\ call.accepted = call.arg
       /\ call.threw => kv.target = call.before
       /\ getDailyTargetTime(kv.target) = ExpectedTarget
  /\ call.op = "getDailyTargetTime" =>
       /\ call.result = ExpectedTarget
       /\ kv.target = call.before

\* "9:00" is refused after "20:59" was stored, and "20:59" is still read.
C11_Witness ==
  /\ call.op = "setDailyTargetTime"
  /\ call.arg = <<"9", ":", "0", "0">>
  /\ call.threw
  /\ call.before = <<"2", "0", ":", "5", "9">>
  /\ getDailyTargetTime(kv.target) = <<"2", "0", ":", "5", "9">>

\* ------------------------------------------------------- the manual path
ManualRuns == {r \in {runs[p] : p \in Procs} : r.kind = "manual"}

\* Due-path submissions completed today before the invocation r began
SubsAtBegin(r) == today.subs - (IF Submitted(r) THEN 1 ELSE 0)

\* The last of the four entries was in the store for today when r began;
\* with no due-path submission before r, a manual run has written it.
ManualSucceededBefore(r) ==
  /\ SubsAtBegin(r) = 0
  /\ \E row \in DOMAIN r.snap.entries :
       row.date = r.day0 /\ row.value.kind = "text"

\* C12: runOnceNow collects and writes whatever the time of day and the
\* submission mark are, and never writes the mark: it starts with the
\* collector, ends only after four writes or with the exception of the
\* collector, the registry or a write, and leaves the stored mark as it
\* was. So after a successful manual run on a day without due-path
\* submission the mark is not that day, and a due-check at or after the
\* target time on that day still proceeds to submit.
C12_ManualIgnoresGate ==
  /\ \A r \in ManualRuns :
       /\ kv.last = r.snap.kv.last
       /\ r.pc \in {"collect", "readCache", "list", "ensure", "saveCache",
                    "del", "ins", "done", "failed"}
       /\ r.pc = "done" => r.stage = "manual" /\ r.idx = 4 /\ r.nCollect = 1
       /\ r.pc = "failed" => r.stage \in {"collect", "registry", "write"}
       /\ r.pc \notin {"collect", "failed"} => r.nCollect = 1
  /\ \A r \in DueRuns :
       ManualSucceededBefore(r) =>
         /\ r.snap.kv.last # r.day0
         /\ (Evaluated(r) /\ NowMinutes(r) >= TargetMinutes) => Proceeded(r)
         /\ (r.pc = "done" /\ r.stage = "submitted") => kv.last = r.day0

\* A due invocation has submitted on a day on which a manual run had
\* written the four entries before it.
C12_Witness ==
  \E r \in DueRuns :
    /\ ManualSucceededBefore(r)
    /\ r.pc = "done" /\ r.stage = "submitted"
    /\ r.idx = 4

\* ---------------------------------------------------------- the collector
\* The invocation r has received a summary from the collector.
GotSummary(r) ==
  r.pc \in {"readCache", "list", "ensure", "saveCache", "del", "ins", "mark"}
    \/ (r.pc = "done" /\ r.stage \in {"manual", "submitted"})
    \/ (r.pc = "failed" /\ r.stage \in {"registry", "write"})

\* C13: the today-summary of the collector fails on a platform other than
\* Android, when the native module is not linked, and when usage access is
\* not granted: an invocation receives a summary only on Android, with the
\* module linked and with access granted, and one that runs without access
\* writes no entry.
C13_CollectorFailsWithoutAccess ==
  \A p \in Procs :
    /\ GotSummary(runs[p]) =>
         platform = "android" /\ nativeLinked /\ permission
    /\ runs[p].nWrites >= 1 => permission

\* ----------------------------------------------------- the background task
\* The operating system runs the task callback: runIfDueNow begins in the
\* task's slot.
StartTask == AllIdle /\ runIfDueNowBegin(TaskSlot)

\* The due path is taken by the background task; the settings screen may
\* still run manually.
NextTask ==
  \/ StartTask
  \/ \E p \in Procs :
       \/ CheckAccess(p)
       \/ ReadTarget(p)
       \/ DueCheck(p)
       \/ StartRunOnceNow(p)
       \/ Collect(p)
       \/ ReadCache(p)
       \/ ListQuestions(p)
       \/ Ensure(p)
       \/ SaveCache(p)
       \/ SetEntryDelete(p)
       \/ SetEntryInsert(p)
       \/ MarkSubmitted(p)
       \/ Return(p)
  \/ Tick
  \/ PromptUsageAccessIfNeeded
  \/ RevokePermission
  \/ SetDailyTargetTime
  \/ DebugResetState
  \/ LoseCache

SpecTask == Init /\ [][NextTask]_vars

TaskRuns == {r \in {runs[p] : p \in Procs} : r.caller = "task"}

\* The invocation r wrote the four entries and stored today's mark.
SubmissionRan(r) ==
  /\ r.idx = 4 /\ r.nCollect = 1 /\ r.nWrites = 8
  /\ kv.last = r.day0

\* C14: the callback of the background task never raises. It reports new
\* data exactly when the invocation wrote the four entries and stored the
\* mark, and no data exactly when a precondition failed (the permission
\* query raising included) or the submission was not due, in which case
\* nothing was done; an exception of the collector, of the registry, of an
\* entry write or of the mark write ends in the callback, which reports a
\* failure.
C14_TaskCallbackNeverThrows ==
  \A r \in TaskRuns :
    /\ r.kind = "due"
    /\ r.host # "rejected"
    /\ r.pc \in {"done", "failed"} <=> r.host # "none"
    /\ r.host = "NewData" <=> (r.pc = "done" /\ SubmissionRan(r))
    /\ r.host = "NoData" <=>
         /\ r.pc = "done"
         /\ r.stage \in {"platform", "configured", "available", "access",
                         "notDue"}
         /\ NoEffect(r)
    /\ r.host = "Failed" <=>
         /\ r.pc = "failed"
         /\ r.stage \in {"collect", "registry", "write", "mark"}
         /\ kv.last = r.snap.kv.last

\* The callback has reported a failure after a write raised.
C14_Witness ==
  \E r \in TaskRuns :
    /\ r.host = "Failed" /\ r.stage = "write" /\ r.idx >= 1

\* C15: on the manual path an exception of the collector, of the registry
\* or of one of the four entry writes reaches the caller of runOnceNow: the
\* call is rejected exactly when a step raised, the step that raised was
\* tried once and nothing was tried after it, and the questions created and
\* the entries written before it are still in the store.
C15_ManualErrorsPropagate ==
  \A r \in ManualRuns :
    /\ r.host = "rejected" <=> r.pc = "failed"
    /\ r.host = "resolved" <=> r.pc = "done"
    /\ r.pc = "failed" =>
         /\ r.stage \in {"collect", "registry", "write"}
         /\ r.stage = "collect" =>
              r.nCollect <= 1 /\ r.nCreated = 0 /\ r.nWrites = 0
         /\ r.stage = "registry" =>
              r.nCollect = 1 /\ r.nWrites = 0 /\ r.idx = 0
         /\ r.stage = "write" =>
              /\ r.nCollect = 1 /\ r.idx < 4
              /\ r.nWrites \in {2 * r.idx + 1, 2 * r.idx + 2}
         /\ \A i \in 1..Len(r.ids) : \E q \in questions : q.id = r.ids[i]
         /\ Cardinality(questions) =
              Cardinality(r.snap.questions) + r.nCreated
         /\ \A i \in 1..r.idx :
              BagIn(toDiaryEntryInsert(r.entries[i]), entries)
         /\ kv.last = r.snap.kv.last

\* The third write of a manual run raised: the call is rejected and the
\* first two entries are in the store.
C15_Witness ==
  \E r \in ManualRuns :
    /\ r.pc = "failed" /\ r.stage = "write" /\ r.idx = 2
    /\ r.host = "rejected"
    /\ \A i \in 1..2 : BagIn(toDiaryEntryInsert(r.entries[i]), entries)

\* ------------------------------------------------ milliseconds to minutes
MsInputs == (0 - MaxMs)..MaxMs

\* A duration in milliseconds is about to be converted.
InitMinutes ==
  /\ platform = "android"
  /\ configured = TRUE
  /\ nativeLinked = TRUE
  /\ permission = TRUE
  /\ usage = ZeroSummary
  /\ clock = [n |-> LastDay, hm |-> <<20, 59>>]
  /\ kv = [last |-> NoItem, target |-> NoItem, qids |-> NoCache]
  /\ questions = {}
  /\ nextQid = 1
  /\ entries = EmptyBag
  /\ runs = [p \in Procs |-> IdleRun]
  /\ started = 0
  /\ settingsOpened = FALSE
  /\ today = NewDay
  /\ \E ms \in MsInputs :
       call = [NoCall EXCEPT !.op = "pending", !.arg = ms]

CallMsToMinutes ==
  /\ call.op = "pending"
  /\ call' = [call EXCEPT !.op = "msToMinutes",
                          !.result = msToMinutes(call.arg)]
  /\ UNCHANGED <<platform, configured, nativeLinked, usage, permission, clock,
                 kv, questions, nextQid, entries, runs, started,
                 settingsOpened, today>>

NextMinutes == CallMsToMinutes

SpecMinutes == InitMinutes /\ [][NextMinutes]_vars

\* C16: msToMinutes(ms) is 0 for every ms below 30000, negative ones
\* included, and the integer part of (ms + 30000) / 60000 otherwise, so
\* never negative; 0 gives 0, 59999 gives 1, -1 gives 0 and 90000 gives 2.
C16_MinutesRoundedHalfUp ==
  call.op = "msToMinutes" =>
    /\ call.arg < 30000 => call.result = 0
    /\ call.arg >= 30000 =>
         \E m \in 1..(MaxMs \div 30000) :
           /\ call.result = m
           /\ 60000 * m <= call.arg + 30000
           /\ call.arg + 30000 < 60000 * (m + 1)
    /\ call.result >= 0
    /\ call.arg = 0 => call.result = 0
    /\ call.arg = 59999 => call.result = 1
    /\ call.arg = 0 - 1 => call.result = 0
    /\ call.arg = 90000 => call.result = 2

\* 90000 ms have been converted to 2 minutes.
C16_Witness ==
  call.op = "msToMinutes" /\ call.arg = 90000 /\ call.result = 2

\* ------------------------------------------------ overlapping invocations
\* The app comes to the foreground and the operating system runs the
\* background task without waiting for each other, at the target time, with
\* every precondition holding and nothing stored yet.
InitOverlap ==
  /\ platform = "android"
  /\ configured = TRUE
  /\ nativeLinked = TRUE
  /\ permission = TRUE
  /\ usage \in {s \in SummaryInputs :
                  s.lastApp.hasLabel /\ s.lastApp.label # ""}
  /\ clock = [n |-> LastDay, hm |-> <<21, 0>>]
  /\ kv = [last |-> NoItem, target |-> NoItem, qids |-> NoCache]
  /\ questions = {}
  /\ nextQid = 1
  /\ entries = EmptyBag
  /\ runs = [p \in Procs |-> IdleRun]
  /\ started = 0
  /\ settingsOpened = FALSE
  /\ today = NewDay
  /\ call = NoCall

\* One invocation per slot is followed.
OneEach == started < Cardinality(Procs)

\* registerUsageBackgroundTask reaches its foreground check
StartForegroundKick == OneEach /\ runIfDueNowBegin(AppSlot)

\* the task callback runs, whatever the app is doing
StartTaskTick == OneEach /\ runIfDueNowBegin(TaskSlot)

\* the settings screen starts a manual run, whatever the task is doing
StartManualRun == OneEach /\ runOnceNowBegin(AppSlot)

NextOverlap ==
  \/ StartForegroundKick
  \/ StartTaskTick
  \/ StartManualRun
  \/ \E p \in Procs :
       \/ CheckAccess(p)
       \/ ReadTarget(p)
       \/ DueCheck(p)
       \/ Collect(p)
       \/ ReadCache(p)
       \/ ListQuestions(p)
       \/ Ensure(p)
       \/ SaveCache(p)
       \/ SetEntryDelete(p)
       \/ SetEntryInsert(p)
       \/ MarkSubmitted(p)
       \/ Return(p)

SpecOverlap == InitOverlap /\ [][NextOverlap]_vars

\* Both slots hold an invocation of runIfDueNow that began on the same day.
TwoDueRuns ==
  /\ \A p \in Procs : runs[p].kind = "due"
  /\ runs[AppSlot].day0 = runs[TaskSlot].day0

\* C17: nothing but the stored mark and the clock decides a due-check, so
\* of two overlapping invocations of runIfDueNow each proceeds exactly when
\* the mark it reads is not today's date and the target time is reached,
\* whatever the other one is doing; each that proceeds calls the collector
\* itself, and when both store the mark the day has two submissions. The
\* interleaving in which both pass the due-check before either stores the
\* mark, and both write the four entries, is reached.
C17_RaceReachable ==
  /\ \A r \in DueRuns :
       /\ Evaluated(r) =>
            (Proceeded(r) <=>
               (r.last # r.day0 /\ NowMinutes(r) >= TargetMinutes))
       /\ (Proceeded(r) /\ r.pc \notin {"collect", "failed"}) =>
            r.nCollect = 1
       /\ Submitted(r) => r.idx = 4 /\ r.nWrites = 8
  /\ (TwoDueRuns /\ \A p \in Procs : Submitted(runs[p])) => today.subs = 2

\* Both invocations read a mark that was not today's, both called the
\* collector, both wrote four entries and both stored the mark.
C17_Witness ==
  /\ TwoDueRuns
  /\ \A p \in Procs :
       /\ Submitted(runs[p])
       /\ runs[p].last # runs[p].day0
       /\ runs[p].nCollect = 1 /\ runs[p].idx = 4
  /\ runs[AppSlot].caller = "foreground" /\ runs[TaskSlot].caller = "task"

\* No call of supaSetDiaryEntry is between its delete and its insert.
NoSetInFlight == \A p \in Procs : runs[p].pc # "ins"

\* The rows of the store with the key of row, counted with multiplicity
RowsWithKeyOf(row) ==
  {other \in DOMAIN entries :
     /\ other.question_id = row.question_id
     /\ other.date = row.date
     /\ other.for_day = row.for_day}

\* C18: when the supaSetDiaryEntry calls of two overlapping runs for the
\* same key interleave their delete and insert requests, the store holds at
\* most one entry for that key once both calls have completed.
C18_ReplaceUnderOverlap ==
  NoSetInFlight =>
    \A row \in DOMAIN entries :
      /\ entries[row] = 1
      /\ RowsWithKeyOf(row) = {row}

\* Both invocations have written their four entries and have ended.
RunsCompleted == \A p \in Procs : runs[p].pc = "done" /\ runs[p].idx = 4

\* Question records whose text is t
QuestionsWithText(t) == {q \in questions : q.question = t}

\* C19: when two overlapping runs both resolve the registry with the cache
\* absent, both listing the questions before either inserts one, each of
\* the four fixed texts still belongs to at most one question record once
\* both runs have completed, and the cached registry names those records.
C19_NoDuplicatesUnderOverlap ==
  RunsCompleted =>
    /\ \A t \in QTextSet : Cardinality(QuestionsWithText(t)) <= 1
    /\ cachedQids(kv.qids).hit =>
         \A i \in 1..4 :
           IsQuestion(cachedQids(kv.qids).qids[Slots[i]], QTexts[i])

\* ------------------------------------------------ the question manager
\* The user edits a question in the question manager and saves it with the
\* switch "active" turned off.
DeactivateQuestion ==
  /\ BetweenRuns
  /\ getSupabaseClient
  /\ \E q \in questions :
       /\ q.active
       /\ questions' = (questions \ {q}) \cup {[q EXCEPT !.active = FALSE]}
  /\ UNCHANGED <<Env, permission, clock, kv, nextQid, entries, runs, started,
                 settingsOpened, today>>

\* Manual runs, losses of the cached registry and deactivations
NextManager ==
  \/ \E p \in Procs :
       \/ StartRunOnceNow(p)
       \/ Collect(p)
       \/ ReadCache(p)
       \/ ListQuestions(p)
       \/ Ensure(p)
       \/ SaveCache(p)
       \/ SetEntryDelete(p)
       \/ SetEntryInsert(p)
       \/ Return(p)
  \/ DebugResetState
  \/ LoseCache
  \/ DeactivateQuestion

SpecManager == InitPayload /\ [][NextManager]_vars

\* The invocation r has resolved the four identifiers from the store.
ResolvedFromStore(r) ==
  /\ ~r.cacheHit
  /\ Len(r.ids) = 4
  /\ r.pc \in {"saveCache", "del", "ins", "mark", "done", "failed"}

\* C20: when the cached registry is lost and an auto-question exists in the
\* store but is deactivated, the resolution reuses the identifier of that
\* record, found by its text, and creates no second question with the text.
C20_DeactivatedQuestionReused ==
  /\ \A t \in QTextSet : Cardinality(QuestionsWithText(t)) <= 1
  /\ \A p \in Procs :
       ResolvedFromStore(runs[p]) =>
         \A i \in 1..4 :
           \A q \in runs[p].snap.questions :
             q.question = QTexts[i] => runs[p].ids[i] = q.id

\* ------------------------------------------------------ the cached registry
\* A stored registry that is JSON and has a number for each of the four
\* identifiers
FourNumbers(item) ==
  /\ item.present /\ item.wellFormed
  /\ {"totalMinutes", "socialMinutes", "musicMinutes", "lastApp"}
       \subseteq DOMAIN item.obj
  /\ \A s \in {"totalMinutes", "socialMinutes", "musicMinutes", "lastApp"} :
       item.obj[s].type = "number"

\* ensureUsageQuestions of invocation r has looked at the cache / returned
PastCache(r) == GotSummary(r) /\ r.pc # "readCache"
Resolved(r) ==
  PastCache(r) /\ r.pc \notin {"list", "ensure", "saveCache"}
    /\ ~(r.pc = "failed" /\ r.stage = "registry")

\* C21: ensureUsageQuestions returns a cached registry of four numbers
\* without any request to the store; an absent, unparsable or incomplete
\* cache is ignored and the registry is rebuilt from the store; after a
\* resolution from the store the key-value store holds exactly the four
\* identifiers returned, written before the function returns, and nothing
\* is written when the resolution fails.
C21_RegistryCacheProtocol ==
  \A p \in Procs :
    LET r == runs[p]
    IN /\ PastCache(r) => (r.cacheHit <=> FourNumbers(r.snap.kv.qids))
       /\ (PastCache(r) /\ r.cacheHit) =>
            /\ \A s \in SlotSet : r.qids[s] = r.snap.kv.qids.obj[s].n
            /\ r.all = <<>> /\ r.ids = <<>> /\ r.nCreated = 0
            /\ questions = r.snap.questions
            /\ kv.qids = r.snap.kv.qids
       /\ (Resolved(r) /\ ~r.cacheHit) =>
            /\ FourNumbers(kv.qids)
            /\ DOMAIN kv.qids.obj = SlotSet
            /\ \A i \in 1..4 : kv.qids.obj[Slots[i]].n = r.ids[i]
            /\ \A s \in SlotSet : r.qids[s] = kv.qids.obj[s].n
       /\ (r.pc \in {"list", "ensure", "saveCache"}
             \/ (r.pc = "failed" /\ r.stage = "registry")) =>
            kv.qids = r.snap.kv.qids

\* A run that found an incomplete cache has rebuilt the registry from the
\* questions in the store and has completed.
C21_Witness ==
  \E p \in Procs :
    /\ Resolved(runs[p]) /\ ~runs[p].cacheHit
    /\ runs[p].snap.kv.qids.present /\ runs[p].snap.kv.qids.wellFormed
    /\ runs[p].nCreated = 0
    /\ runs[p].pc = "done"

\* --------------------------------------------------- order of new questions
\* C22: every question created by ensureUsageQuestions gets an order value
\* strictly greater than that of every question in the store when it is
\* created, the auto-questions created earlier in the same resolution
\* included. Identifiers are serial, so a question with a smaller
\* identifier was in the store when one with a greater identifier was
\* created.
C22_NewQuestionsOrderedLast ==
  \A q1 \in questions, q2 \in questions :
    (q1.question \in QTextSet /\ q2.question \in QTextSet /\ q1.id < q2.id)
      => q1.order < q2.order

\* ------------------------------------------------- the four entry writes
\* Rows of table tbl with the key of entry e
KeyRows(tbl, e) ==
  {row \in DOMAIN tbl :
     /\ row.question_id = e.questionID
     /\ row.date = e.date
     /\ row.for_day = e.forDay}

\* C23: the four entries are written one after the other in the order
\* total, social, music, last app; when the k-th write fails the run
\* fails, the entries of the writes before it are in the store and the
\* writes after it are not attempted: their keys hold what they held when
\* the run began.
C23_NoRollbackNoSkipping ==
  \A p \in Procs :
    LET r == runs[p]
    IN Len(r.entries) = 4 =>
         /\ \A i \in 1..4 : r.entries[i].questionID = r.qids[Slots[i]]
         /\ r.idx \in 0..4
         /\ r.nWrites \in {2 * r.idx, 2 * r.idx + 1, 2 * r.idx + 2}
         /\ r.pc = "del" => r.nWrites = 2 * r.idx /\ r.idx < 4
         /\ r.pc = "ins" => r.nWrites = 2 * r.idx + 1 /\ r.idx < 4
         /\ (r.pc = "mark" \/ (r.pc = "done" /\ r.stage # "notDue")) =>
              r.idx = 4 /\ r.nWrites = 8
         /\ \A i \in 1..r.idx :
              BagIn(toDiaryEntryInsert(r.entries[i]), entries)
         /\ \A i \in (r.idx + 2)..4 :
              KeyRows(entries, r.entries[i])
                = KeyRows(r.snap.entries, r.entries[i])
         /\ (r.pc = "failed" /\ r.stage = "write") =>
              /\ r.idx < 4
              /\ r.nWrites > 2 * r.idx
              /\ r.kind = "due" => kv.last = r.snap.kv.last

\* The third write of a due run failed: total and social are in the store,
\* the last-app entry was not attempted.
C23_Witness ==
  \E p \in Procs :
    LET r == runs[p]
    IN /\ r.kind = "due" /\ r.pc = "failed" /\ r.stage = "write"
       /\ r.idx = 2 /\ r.nWrites = 6
       /\ \A i \in 1..2 : BagIn(toDiaryEntryInsert(r.entries[i]), entries)
       /\ KeyRows(entries, r.entries[4]) = {}

\* ------------------------------------------------- the stamp of a run
\* Time passes while an invocation is in progress.
Elapse ==
  /\ ~AllIdle
  /\ \E n \in clock.n..LastDay, hm \in ClockTimes :
       /\ \/ n > clock.n
          \/ n = clock.n /\ hm[1] * 60 + hm[2] > clock.hm[1] * 60 + clock.hm[2]
       /\ clock' = [n |-> n, hm |-> hm]
       /\ today' = IF n > clock.n THEN NewDay ELSE today
  /\ UNCHANGED <<Env, permission, kv, questions, nextQid, entries, runs,
                 started, settingsOpened>>

\* Every precondition holds; the target time is the default or "20:59".
InitStamp ==
  /\ platform = "android"
  /\ configured = TRUE
  /\ nativeLinked = TRUE
  /\ permission = TRUE
  /\ usage \in {s \in SummaryInputs :
                  s.lastApp.hasLabel /\ s.lastApp.label # ""}
  /\ clock = [n |-> 1, hm |-> <<20, 59>>]
  /\ \E t \in {hhmm \in TargetInputs : MatchesHHmm(hhmm)} \cup {NoItem} :
       kv = [last |-> NoItem, target |-> t, qids |-> NoCache]
  /\ questions = {}
  /\ nextQid = 1
  /\ entries = EmptyBag
  /\ runs = [p \in Procs |-> IdleRun]
  /\ started = 0
  /\ settingsOpened = FALSE
  /\ today = NewDay
  /\ call = NoCall

NextStamp ==
  \/ \E p \in Procs :
       \/ StartRunIfDueNow(p)
       \/ CheckAccess(p)
       \/ ReadTarget(p)
       \/ DueCheck(p)
       \/ StartRunOnceNow(p)
       \/ Collect(p)
       \/ ReadCache(p)
       \/ ListQuestions(p)
       \/ Ensure(p)
       \/ SaveCache(p)
       \/ SetEntryDelete(p)
       \/ SetEntryInsert(p)
       \/ MarkSubmitted(p)
       \/ Return(p)
  \/ Tick
  \/ Elapse

SpecStamp == InitStamp /\ [][NextStamp]_vars

\* The date and the wall-clock time of the instant d, written out
DateText(d) ==
  IF d.fullYear = 2025 /\ d.month = 0 /\ d.date = 31
    THEN <<"2", "0", "2", "5", "-", "0", "1", "-", "3", "1">>
    ELSE <<"2", "0", "2", "5", "-", "0", "2", "-", "0", "1">>
TimeText(d) ==
  IF d.hours = 20 /\ d.minutes = 59
    THEN <<"2", "0", ":", "5", "9">>
    ELSE <<"2", "1", ":", "0", "0">>

StoredChars == {"0", "2", ":", "a"}
StoredInputs ==
  UNION {[1..n -> StoredChars] : n \in 0..MaxLen}

InitStored ==
  /\ platform = "android"
  /\ configured = TRUE
  /\ nativeLinked = TRUE
  /\ permission = TRUE
  /\ usage = ZeroSummary
  /\ clock = [n |-> LastDay, hm |-> <<20, 59>>]
  /\ \E v \in StoredInputs :
       kv = [last |-> NoItem, target |-> v, qids |-> NoCache]
  /\ questions = {}
  /\ nextQid = 1
  /\ entries = EmptyBag
  /\ runs = [p \in Procs |-> IdleRun]
  /\ started = 0
  /\ settingsOpened = FALSE
  /\ today = NewDay
  /\ call = NoCall

NextStored == CallGetDailyTargetTime

SpecStored == InitStored /\ [][NextStored]_vars

\* C25: getDailyTargetTime returns "21:00" when no target time is stored or
\* the stored value is not two digits, a colon and two digits, and the
\* stored value unchanged otherwise; it does not write to the key-value
\* store and a malformed stored value does not make it fail.
C25_DefaultTargetTime ==
  call.op = "getDailyTargetTime" =>
    /\ ~call.threw
    /\ kv.target = call.before
    /\ TwoDigitsColonTwoDigits(call.before) => call.result = call.before
    /\ ~TwoDigitsColonTwoDigits(call.before) =>
         call.result = <<"2", "1", ":", "0", "0">>

\* "20:a0" is stored and "21:00" is read.
C25_Witness ==
  /\ call.op = "getDailyTargetTime"
  /\ call.before = <<"2", "0", ":", "a", "0">>
  /\ call.result = <<"2", "1", ":", "0", "0">>

\* ------------------------------------------------------- the debug reset
\* A step that removes the stored mark, or the cached registry
MarkRemoved == kv.last # NoItem /\ kv'.last = NoItem
CacheRemoved == kv.qids.present /\ ~kv'.qids.present

\* The step removes the mark and the cached registry and nothing else.
ResetFrame ==
  /\ kv'.last = NoItem
  /\ kv'.qids = NoCache
  /\ kv'.target = kv.target
  /\ questions' = questions
  /\ nextQid' = nextQid
  /\ entries' = entries
  /\ runs' = runs

\* The mark was removed on a day with a submission before r began.
BeganAfterReset(r) ==
  /\ r.kind = "due"
  /\ SubsAtBegin(r) >= 1
  /\ r.snap.kv.last = NoItem

\* C26: __debugResetState removes the mark and the cached registry and
\* leaves the target time and the remote store as they are, and no other
\* operation removes the mark. After it, an invocation of runIfDueNow on
\* the same day at or after the target time finds the submission due
\* again, and it takes the identifiers of the existing auto-questions
\* without creating a question.
C26_DebugResetFrame ==
  /\ [][(MarkRemoved \/ CacheRemoved) => ResetFrame]_vars
  /\ [](\A r \in DueRuns :
          BeganAfterReset(r) =>
            /\ (Evaluated(r) /\ NowMinutes(r) >= TargetMinutes)
                 => Proceeded(r)
            /\ r.nCreated = 0
            /\ questions = r.snap.questions
            /\ Len(r.ids) = 4 =>
                 \A i \in 1..4 :
                   \E q \in r.snap.questions :
                     q.id = r.ids[i] /\ q.question = QTexts[i])

\* After a submission and a reset a second submission of the same day has
\* completed with the four questions found in the store.
C26_Witness ==
  \E r \in DueRuns :
    /\ BeganAfterReset(r)
    /\ Submitted(r)
    /\ ~r.cacheHit /\ Len(r.ids) = 4 /\ r.nCreated = 0
    /\ today.subs = 2

\* ------------------------------------------- answered on a date (diary)
\* select id from diary_entries where question_id = questionId and
\* date = date, limit 1; true when a row came back. The forDay argument is
\* not part of the query.
supaHasAnsweredQuestionOnDate(tbl, questionId, date, forDay) ==
  \E row \in DOMAIN tbl : row.question_id = questionId /\ row.date = date

\* The diary screens store answers for the day itself or for the day
\* before it (the reference day of the question).
ForDays == {"today", "yesterday"}
AnsweredRows ==
  {[question_id |-> id, date |-> toISODate(Days[n]), time |-> toHHmm(
      CalendarDate(n, <<20, 59>>)), value |-> NumberValue(1), for_day |-> f] :
     id \in 1..2, n \in 1..LastDay, f \in ForDays}
AnsweredArgs ==
  [questionId : 1..2, date : {toISODate(Days[n]) : n \in 1..LastDay},
   forDay : ForDays]

\* The store holds at most two diary entries and a screen is about to ask
\* whether a question was answered.
InitAnswered ==
  /\ platform = "android"
  /\ configured = TRUE
  /\ nativeLinked = TRUE
  /\ permission = TRUE
  /\ usage = ZeroSummary
  /\ clock = [n |-> LastDay, hm |-> <<20, 59>>]
  /\ kv = [last |-> NoItem, target |-> NoItem, qids |-> NoCache]
  /\ questions = {}
  /\ nextQid = 1
  /\ \E rows \in SUBSET AnsweredRows :
       /\ Cardinality(rows) <= 2
       /\ entries = SetToBag(rows)
  /\ runs = [p \in Procs |-> IdleRun]
  /\ started = 0
  /\ settingsOpened = FALSE
  /\ today = NewDay
  /\ call = NoCall

\* await supaHasAnsweredQuestionOnDate(questionId, date, forDay)
CallHasAnswered ==
  /\ call.op = "none"
  /\ getSupabaseClient
  /\ \E a \in AnsweredArgs, queryFails \in BOOLEAN :
       call' = [call EXCEPT
                  !.op = "supaHasAnsweredQuestionOnDate",
                  !.arg = a,
                  !.threw = queryFails,
                  !.result = IF queryFails THEN <<>>
                             ELSE supaHasAnsweredQuestionOnDate(
                                    entries, a.questionId, a.date, a.forDay)]
  /\ UNCHANGED <<platform, configured, nativeLinked, usage, permission, clock,
                 kv, questions, nextQid, entries, runs, started,
                 settingsOpened, today>>

NextAnswered == CallHasAnswered

SpecAnswered == InitAnswered /\ [][NextAnswered]_vars

\* the stored entries whose question id, date and for_day equal the
\* arguments of the call
AnsweredMatches ==
  {row \in DOMAIN entries :
     /\ row.question_id = call.arg.questionId
     /\ row.date = call.arg.date
     /\ row.for_day = call.arg.forDay}

\* C27: a call of supaHasAnsweredQuestionOnDate(questionId, date, forDay)
\* that returns, returns true exactly when the store holds at least one
\* entry whose question id, date and for_day all equal the arguments; an
\* entry for the same question and date with another for_day does not make
\* it true.
C27_AnsweredMatchesForDay ==
  (call.op = "supaHasAnsweredQuestionOnDate" /\ ~call.threw) =>
    (call.result = TRUE <=> AnsweredMatches # {})

\* The set operation of entries[idx + 1] of the invocation r failed, and no
\* earlier write of r had the same key.
FailedSet(r) ==
  /\ r.pc = "failed" /\ r.stage = "write"
  /\ r.idx < Len(r.entries)
  /\ \A i \in 1..r.idx :
       r.entries[i].questionID # r.entries[r.idx + 1].questionID

\* C28: when supaSetDiaryEntry fails, at its delete request or at its
\* insert request, the entries stored for (questionId, date, forDay) before
\* the call are still stored afterwards, as many times as before.
C28_FailedSetKeepsOld ==
  \A p \in Procs :
    LET r == runs[p]
        e == r.entries[r.idx + 1]
    IN FailedSet(r) =>
         /\ KeyRows(entries, e) = KeyRows(r.snap.entries, e)
         /\ \A row \in KeyRows(entries, e) :
              CopiesIn(row, entries) = CopiesIn(row, r.snap.entries)

\* the wall-clock minutes of a day: (hours, minutes)
MinutesOfDay == (0..23) \X (0..59)

\* C29: every string that setDailyTargetTime accepts parses to a number of
\* minutes in 0..1439, so that on a day without a submission there is a
\* minute of the day at which isSubmissionDue finds the submission due.
C29_AcceptedTargetCanBecomeDue ==
  (call.op = "setDailyTargetTime" /\ ~call.threw) =>
    /\ hhmmToMinutes(call.arg) \in 0..1439
    /\ \E hm \in MinutesOfDay :
         isSubmissionDue(NoItem, CalendarDate(1, hm),
                         getDailyTargetTime(kv.target))

\* ------------------------------------------------- deletion of questions
\* A question is deleted in the store between two invocations.
DeleteQuestion ==
  /\ BetweenRuns
  /\ getSupabaseClient
  /\ \E q \in questions :
       /\ questions' = supaDeleteQuestion(questions, q.id)
       /\ entries' = deleteCascade(entries, q.id)
  /\ UNCHANGED <<Env, permission, clock, kv, nextQid, runs, started,
                 settingsOpened, today>>

\* Manual runs and deletions of questions
NextDelete ==
  \/ \E p \in Procs :
       \/ StartRunOnceNow(p)
       \/ Collect(p)
       \/ ReadCache(p)
       \/ ListQuestions(p)
       \/ Ensure(p)
       \/ SaveCache(p)
       \/ SetEntryDelete(p)
       \/ SetEntryInsert(p)
       \/ Return(p)
  \/ DeleteQuestion

SpecDelete == InitPayload /\ [][NextDelete]_vars

\* C30: the four identifiers that ensureUsageQuestions returns identify
\* questions that exist in the store when it returns and that have the four
\* fixed texts, whatever resolutions, creations and deletions came before;
\* a cached registry that refers to a deleted question is not returned.
C30_RegistryIdsLive ==
  \A p \in Procs :
    LET r == runs[p]
    IN (Resolved(r) /\ r.pc = "del" /\ r.idx = 0 /\ r.nWrites = 0) =>
         \A i \in 1..4 : IsQuestion(r.qids[Slots[i]], QTexts[i])

====
